---- MODULE Spec2Model ----
(***************************************************************************)
(* Model of the e-commerce analytics dashboard (ecommerce_dashboard.py).   *)
(*                                                                         *)
(* The dashboard is a pipeline: load_data (table loader, joins, derived    *)
(* columns) runs once; main then filters the unified table and hands the   *)
(* filtered rows to the aggregation functions.  Each part is modelled by   *)
(* its own specification over the shared variables below; a specification  *)
(* leaves the variables of the other parts at their initial values.        *)
(*                                                                         *)
(*   SpecLoad      load_csv_with_encoding, one file                        *)
(*   SpecLoadData  load_data from the six files to its return, and main    *)
(*                 up to the test of the returned value                    *)
(*   SpecUnify     load_data: the five left joins                          *)
(*   SpecCategory  load_data: main_category of an item description         *)
(*   SpecMargin    load_data: profit_margin of a unified record            *)
(*   SpecMain      main: filters, sidebar lines, sections or "no data"     *)
(*   SpecSeg       create_customer_analysis: customer segments             *)
(*   SpecTime      create_time_analysis: weekday series and heatmap        *)
(*   SpecRank      create_product_analysis, create_payment_analysis: the   *)
(*                 top-N rankings                                          *)
(*   SpecLaunch    launch_dashboard.py: checks, installation, launch       *)
(*                                                                         *)
(* Money amounts are whole currency units (pandas' round(2) leaves them    *)
(* unchanged).  A timestamp is day * 24 + hour; NaT is the null timestamp. *)
(***************************************************************************)
EXTENDS Integers, Sequences, FiniteSets, TLC

VARIABLES
    \* create_customer_analysis
    customer_metrics,  \* per-customer metrics with the Segment column
    moved,             \* history: how the last pass moved the segment of the customer
                       \* whose metrics it raised ("first" before any such pass)
    \* main
    data,              \* the cached unified table (data_dict["comprehensive"])
    date_range,        \* value of the date selector: a tuple of 0, 1 or 2 days
    divisions,         \* value of the divisions multiselect
    payment_methods,   \* value of the payment methods multiselect
    filtered,          \* main's local `data` after the filters
    outcome,           \* "loaded", then how the pass ended
    \* load_data: the joins
    fact_table, customer_dim, item_dim, store_dim, time_dim, trans_dim,
    comprehensive_data,
    unified,           \* whether the joins have run
    \* load_data: derived columns of one item / one unified record
    desc, main_category,
    unit_price, total_price, profit_margin,
    \* create_time_analysis
    time_data,         \* the filtered table handed to create_time_analysis
    weekday_revenue,   \* the weekday series: (weekday, revenue) in index order
    heatmap_data,      \* the pivot: (weekday, hour -> revenue) in row-index order
    analysed,          \* whether create_time_analysis has run
    \* load_csv_with_encoding
    file_state,        \* what reading the file does under each encoding
    tried,             \* the encodings passed to pd.read_csv so far, in order
    load_result,       \* "running", or how the call ended
    \* load_data and the start of main
    csv_files,         \* per file: what load_csv_with_encoding does for it
    absent_columns,    \* the <<table, column>> pairs the input tables lack
    pc,                \* position in load_data, "done" once it has returned
    loaded,            \* the files loaded so far, in order
    joined,            \* the dimensions merged into comprehensive_data so far
    data_dict,         \* load_data's return value ("unset" before it returns)
    shown,             \* the st.error messages shown so far
    page,              \* main: "loading", "returned" (line 638) or "dashboard"
    \* the top-N rankings of create_product_analysis and create_payment_analysis
    rank_data,         \* the filtered table handed to the two functions
    category_revenue,  \* (main_category, revenue) in the order charted
    country_data,      \* (man_country, revenue) in the order charted
    bank_revenue,      \* (bank_name, revenue) in the order charted
    ranked,            \* the functions among the two that have run
    \* launch_dashboard.py
    dashboard_exists,  \* os.path.exists("ecommerce_dashboard.py")
    missing_files,     \* the CSV files that do not exist
    pip_results,       \* per package: what pip install does for it
    attempted,         \* the packages passed to pip so far, in order
    warned,            \* whether the missing-files warning was printed
    launcher_pc,       \* position in the launcher's main
    launched           \* whether streamlit was started

segVars   == <<customer_metrics, moved>>
mainVars  == <<data, date_range, divisions, payment_methods, filtered, outcome>>
unifyVars == <<fact_table, customer_dim, item_dim, store_dim, time_dim, trans_dim,
               comprehensive_data, unified>>
categoryVars == <<desc, main_category>>
marginVars   == <<unit_price, total_price, profit_margin>>
timeVars  == <<time_data, weekday_revenue, heatmap_data, analysed>>
loadVars  == <<file_state, tried, load_result>>
dictVars  == <<csv_files, absent_columns, pc, loaded, joined, data_dict, shown, page>>
rankVars  == <<rank_data, category_revenue, country_data, bank_revenue, ranked>>
launchVars == <<dashboard_exists, missing_files, pip_results, attempted, warned,
                launcher_pc, launched>>

vars == <<segVars, mainVars, unifyVars, categoryVars, marginVars, timeVars, loadVars,
         dictVars, rankVars, launchVars>>

\* The values a part's variables keep while another part's specification runs.
SegIdle   == customer_metrics = <<>> /\ moved = "first"
MainIdle  == /\ data = <<>> /\ date_range = <<>> /\ divisions = {}
             /\ payment_methods = {} /\ filtered = <<>> /\ outcome = "idle"
UnifyIdle == /\ fact_table = <<>> /\ customer_dim = <<>> /\ item_dim = <<>>
             /\ store_dim = <<>> /\ time_dim = <<>> /\ trans_dim = <<>>
             /\ comprehensive_data = <<>> /\ unified = FALSE
CategoryIdle == desc = <<>> /\ main_category = <<"unset">>
MarginIdle   == unit_price = 0 /\ total_price = 0 /\ profit_margin = [kind |-> "unset"]
TimeIdle  == time_data = <<>> /\ weekday_revenue = <<>> /\ heatmap_data = <<>>
             /\ analysed = FALSE
LoadIdle  == file_state = <<>> /\ tried = <<>> /\ load_result = "idle"
DictIdle  == /\ csv_files = <<>> /\ absent_columns = {} /\ pc = "idle"
             /\ loaded = <<>> /\ joined = <<>> /\ data_dict = [kind |-> "unset"]
             /\ shown = <<>> /\ page = "idle"
RankIdle  == /\ rank_data = <<>> /\ category_revenue = <<>> /\ country_data = <<>>
             /\ bank_revenue = <<>> /\ ranked = {}
LaunchIdle == /\ dashboard_exists = FALSE /\ missing_files = {} /\ pip_results = <<>>
              /\ attempted = <<>> /\ warned = FALSE /\ launcher_pc = "idle"
              /\ launched = FALSE

(***************************************************************************)
(* Customer segmentation (create_customer_analysis)                        *)
(***************************************************************************)
MaxCustomers == 3
OrderCounts == 1..5
SpentValues == 0..2

\* the values of the sequence s in ascending order
RECURSIVE SortValues(_)
SortValues(s) ==
    IF s = <<>> THEN <<>>
    ELSE LET rest == SortValues(Tail(s))
             k    == Cardinality({i \in DOMAIN rest : rest[i] <= Head(s)})
         IN  SubSeq(rest, 1, k) \o <<Head(s)>> \o SubSeq(rest, k + 1, Len(rest))

\* Series.quantile(k/4) with pandas' default linear interpolation, times 4:
\* position h = (n-1)*k/4, result = v[lo] + (h-lo)*(v[lo+1]-v[lo]).
Quantile4(s, k) ==
    LET v  == SortValues(s)
        n  == Len(s)
        lo == ((n - 1) * k) \div 4
        r  == ((n - 1) * k) % 4
    IN  IF r = 0
        THEN 4 * v[lo + 1]
        ELSE 4 * v[lo + 1] + r * (v[lo + 2] - v[lo + 1])

TotalSpentColumn(metrics) == [i \in DOMAIN metrics |-> metrics[i].TotalSpent]

\* segment_customers with the Loyal rule's count test written > 3
segment_customers_strict(row, metrics) ==
    IF row.OrderCount >= 5
       /\ 4 * row.TotalSpent >= Quantile4(TotalSpentColumn(metrics), 3)
    THEN "VIP Customers"
    ELSE IF row.OrderCount > 3
            /\ 4 * row.TotalSpent >= Quantile4(TotalSpentColumn(metrics), 2)
    THEN "Loyal Customers"
    ELSE IF row.OrderCount >= 2
    THEN "Regular Customers"
    ELSE "One-time Buyers"

\* segment_customers with the Loyal rule's count test written = 3
segment_customers_exact(row, metrics) ==
    IF row.OrderCount >= 5
       /\ 4 * row.TotalSpent >= Quantile4(TotalSpentColumn(metrics), 3)
    THEN "VIP Customers"
    ELSE IF row.OrderCount = 3
            /\ 4 * row.TotalSpent >= Quantile4(TotalSpentColumn(metrics), 2)
    THEN "Loyal Customers"
    ELSE IF row.OrderCount >= 2
    THEN "Regular Customers"
    ELSE "One-time Buyers"

segment_customers(row, metrics) ==
    IF row.OrderCount >= 5
       /\ 4 * row.TotalSpent >= Quantile4(TotalSpentColumn(metrics), 3)
    THEN "VIP Customers"
    ELSE IF row.OrderCount >= 3
            /\ 4 * row.TotalSpent >= Quantile4(TotalSpentColumn(metrics), 2)
    THEN "Loyal Customers"
    ELSE IF row.OrderCount >= 2
    THEN "Regular Customers"
    ELSE "One-time Buyers"

\* customer_metrics["Segment"] = customer_metrics.apply(segment_customers, axis=1)
ApplySegment(metrics) ==
    [i \in DOMAIN metrics |->
        [OrderCount |-> metrics[i].OrderCount,
         TotalSpent |-> metrics[i].TotalSpent,
         Segment    |-> segment_customers(metrics[i], metrics)]]

\* priority of a segment label: VIP > Loyal > Regular > OneTime
Rank(segment) ==
    CASE segment = "VIP Customers"     -> 3
      [] segment = "Loyal Customers"   -> 2
      [] segment = "Regular Customers" -> 1
      [] segment = "One-time Buyers"   -> 0

Movement(before, after) ==
    IF Rank(after) > Rank(before) THEN "up"
    ELSE IF Rank(after) = Rank(before) THEN "same" ELSE "down"

MetricRows ==
    [OrderCount : OrderCounts, TotalSpent : SpentValues]

\* the population of the scenario: order counts [1,2,4,6], spent [10,50,200,900]
ScenarioMetrics ==
    << [OrderCount |-> 1, TotalSpent |-> 10],
       [OrderCount |-> 2, TotalSpent |-> 50],
       [OrderCount |-> 4, TotalSpent |-> 200],
       [OrderCount |-> 6, TotalSpent |-> 900] >>

Populations ==
    UNION {[1..n -> MetricRows] : n \in 1..MaxCustomers} \cup {ScenarioMetrics}

InitSeg ==
    /\ \E m \in Populations : customer_metrics = ApplySegment(m)
    /\ moved = "first"
    /\ MainIdle /\ UnifyIdle /\ CategoryIdle /\ MarginIdle /\ TimeIdle /\ LoadIdle
    /\ DictIdle /\ RankIdle /\ LaunchIdle

\* A later pass over filtered data in which customer c has more orders and
\* every other customer the same rows: the groupby result differs in row c
\* only, and every segment is computed afresh (quantiles included).
RaiseOrderCount(c, cnt) ==
    /\ Len(customer_metrics) <= MaxCustomers
    /\ c \in DOMAIN customer_metrics
    /\ cnt > customer_metrics[c].OrderCount
    /\ customer_metrics' =
         ApplySegment([customer_metrics EXCEPT ![c].OrderCount = cnt])
    /\ moved' = Movement(customer_metrics[c].Segment, customer_metrics'[c].Segment)
    /\ UNCHANGED <<mainVars, unifyVars, categoryVars, marginVars, timeVars, loadVars,
                   dictVars, rankVars, launchVars>>

\* The same with a higher total spent for customer c.
RaiseTotalSpent(c, spent) ==
    /\ Len(customer_metrics) <= MaxCustomers
    /\ c \in DOMAIN customer_metrics
    /\ spent > customer_metrics[c].TotalSpent
    /\ customer_metrics' =
         ApplySegment([customer_metrics EXCEPT ![c].TotalSpent = spent])
    /\ moved' = Movement(customer_metrics[c].Segment, customer_metrics'[c].Segment)
    /\ UNCHANGED <<mainVars, unifyVars, categoryVars, marginVars, timeVars, loadVars,
                   dictVars, rankVars, launchVars>>

NextSeg ==
    \/ \E c \in 1..MaxCustomers, cnt \in OrderCounts : RaiseOrderCount(c, cnt)
    \/ \E c \in 1..MaxCustomers, spent \in SpentValues : RaiseTotalSpent(c, spent)

SpecSeg == InitSeg /\ [][NextSeg]_vars

Labels == {"VIP Customers", "Loyal Customers", "Regular Customers", "One-time Buyers"}

SegmentCount(label) ==
    Cardinality({i \in DOMAIN customer_metrics : customer_metrics[i].Segment = label})

Unsegmented ==
    [i \in DOMAIN customer_metrics |->
        [OrderCount |-> customer_metrics[i].OrderCount,
         TotalSpent |-> customer_metrics[i].TotalSpent]]

\* C1: every customer of the filtered set carries exactly one label, the one
\* of the first matching rule in the order VIP (count >= 5 and spent >= q75),
\* Loyal (count >= 3 and spent >= q50), Regular (count >= 2), OneTime, with
\* q75 and q50 the linear-interpolation percentiles of total spent over the
\* current population; for counts [1,2,4,6] and spent [10,50,200,900]
\* (q75 = 375, q50 = 125) there is exactly one VIP (count 6, spent 900), one
\* Regular (count 2) and one OneTime (count 1).
C1_SegmentFirstMatch ==
    LET spent == TotalSpentColumn(customer_metrics)
        q75x4 == Quantile4(spent, 3)
        q50x4 == Quantile4(spent, 2)
        vip(r)     == r.OrderCount >= 5 /\ 4 * r.TotalSpent >= q75x4
        loyal(r)   == r.OrderCount >= 3 /\ 4 * r.TotalSpent >= q50x4
        regular(r) == r.OrderCount >= 2
    IN  /\ \A i \in DOMAIN customer_metrics :
            LET r == customer_metrics[i] IN
            /\ r.Segment \in Labels
            /\ (r.Segment = "VIP Customers") <=> vip(r)
            /\ (r.Segment = "Loyal Customers") <=> (~vip(r) /\ loyal(r))
            /\ (r.Segment = "Regular Customers")
                   <=> (~vip(r) /\ ~loyal(r) /\ regular(r))
            /\ (r.Segment = "One-time Buyers")
                   <=> (~vip(r) /\ ~loyal(r) /\ ~regular(r))
        /\ Unsegmented = ScenarioMetrics =>
            /\ q75x4 = 4 * 375
            /\ q50x4 = 4 * 125
            /\ SegmentCount("VIP Customers") = 1
            /\ customer_metrics[4].Segment = "VIP Customers"
            /\ SegmentCount("Regular Customers") = 1
            /\ customer_metrics[2].Segment = "Regular Customers"
            /\ SegmentCount("One-time Buyers") = 1
            /\ customer_metrics[1].Segment = "One-time Buyers"

\* the scenario population has been segmented
C1_Witness ==
    /\ Unsegmented = ScenarioMetrics
    /\ customer_metrics[4].Segment = "VIP Customers"
    /\ customer_metrics[3].Segment = "Loyal Customers"

RaisedOnly(c) ==
    /\ DOMAIN customer_metrics' = DOMAIN customer_metrics
    /\ customer_metrics'[c].OrderCount >= customer_metrics[c].OrderCount
    /\ customer_metrics'[c].TotalSpent >= customer_metrics[c].TotalSpent
    /\ \A d \in DOMAIN customer_metrics \ {c} :
          /\ customer_metrics'[d].OrderCount = customer_metrics[d].OrderCount
          /\ customer_metrics'[d].TotalSpent = customer_metrics[d].TotalSpent

\* C2: segmentation is monotonic: a pass in which customer c's order count or
\* total spent is raised while every other customer's metrics stay fixed
\* (quantiles recomputed) never moves c to a lower-priority segment.
C2_Monotonic ==
    [][\A c \in DOMAIN customer_metrics :
          RaisedOnly(c) =>
             Rank(customer_metrics'[c].Segment) >= Rank(customer_metrics[c].Segment)]_vars

\* a raise has moved its customer to a higher segment, in a population where
\* the quantiles are interpolated between two different amounts
C2_Witness ==
    /\ moved = "up"
    /\ Len(customer_metrics) >= 2
    /\ Quantile4(TotalSpentColumn(customer_metrics), 3) % 4 # 0

(***************************************************************************)
(* main: one recomputation pass over the cached unified table              *)
(***************************************************************************)
MaxRows == 2

NaT == -1            \* the null timestamp (errors="coerce", unmatched time_key)
NaN == "NaN"         \* the null of a text column (unmatched store / payment key)

Days == 1..3
Hours == {9}
Timestamps == {d * 24 + h : d \in Days, h \in Hours}
DivisionValues == {NaN, "DHAKA", "KHULNA"}
TransTypes == {NaN, "card"}

\* Series.dt.date: the calendar day of a timestamp
DtDate(ts) == ts \div 24

\* a unified table: row i carries the index label i
Tables ==
    UNION {[1..n -> [date : Timestamps \cup {NaT}, division : DivisionValues,
                     trans_type : TransTypes]] : n \in 0..MaxRows}

WithIndex(t) ==
    [i \in DOMAIN t |-> [idx |-> i, date |-> t[i].date, division |-> t[i].division,
                         trans_type |-> t[i].trans_type]]

NonNullDates(rows) == {rows[i].date : i \in DOMAIN rows} \ {NaT}

Minimum(S) == CHOOSE x \in S : \A y \in S : x <= y
Maximum(S) == CHOOSE x \in S : \A y \in S : x >= y

\* data["date"].min().date(), data["date"].max().date(): min/max skip NaT
MinDate(rows) == DtDate(Minimum(NonNullDates(rows)))
MaxDate(rows) == DtDate(Maximum(NonNullDates(rows)))

\* what st.sidebar.date_input can return between min_value and max_value
DateInputs(rows) ==
    LET span == MinDate(rows)..MaxDate(rows)
    IN  {<<>>} \cup {<<a>> : a \in span}
               \cup {<<p[1], p[2]>> : p \in {q \in span \X span : q[1] <= q[2]}}

\* Series.unique(): the distinct values of a column, the null included
Unique(rows, col) == {rows[i][col] : i \in DOMAIN rows}

\* data[(data["date"].dt.date >= lo) & (data["date"].dt.date <= hi)] with the
\* upper bound written <
DateMask_exclusive(row, lo, hi) ==
    /\ row.date # NaT
    /\ DtDate(row.date) >= lo
    /\ DtDate(row.date) < hi

\* (data["date"].dt.date >= lo) & (data["date"].dt.date <= hi): a comparison
\* with a null element is False
DateMask(row, lo, hi) ==
    /\ row.date # NaT
    /\ DtDate(row.date) >= lo
    /\ DtDate(row.date) <= hi

\* Series.isin(values): membership, the null matching a null among the values
IsIn(value, values) == value \in values

\* lines 671-682 with the date test written `if date_range:`, a lone start
\* date standing for both ends of the range
ApplyFilters_anydate(rows, dr, divs, pms) ==
    LET byDate == IF Len(dr) >= 1
                  THEN SelectSeq(rows, LAMBDA r : DateMask(r, dr[1], dr[Len(dr)]))
                  ELSE rows
        byDiv  == IF divs # {}
                  THEN SelectSeq(byDate, LAMBDA r : IsIn(r.division, divs))
                  ELSE byDate
    IN  IF pms # {}
        THEN SelectSeq(byDiv, LAMBDA r : IsIn(r.trans_type, pms))
        ELSE byDiv

\* lines 671-682
ApplyFilters(rows, dr, divs, pms) ==
    LET byDate == IF Len(dr) = 2
                  THEN SelectSeq(rows, LAMBDA r : DateMask(r, dr[1], dr[2]))
                  ELSE rows
        byDiv  == IF divs # {}
                  THEN SelectSeq(byDate, LAMBDA r : IsIn(r.division, divs))
                  ELSE byDate
    IN  IF pms # {}
        THEN SelectSeq(byDiv, LAMBDA r : IsIn(r.trans_type, pms))
        ELSE byDiv

\* lines 684-757: the sidebar lines, then the sections or the "no data" message.
\* NaT.strftime raises; idxmax of an empty groupby result and mode()[0] of an
\* all-null column raise; the chart library's calls are taken to succeed.
PassOutcome(rows) ==
    IF NonNullDates(rows) = {}
    THEN "raised"                                   \* line 687
    ELSE IF Len(rows) > 0
    THEN IF Unique(rows, "division") \ {NaN} = {}   \* line 725
            \/ Unique(rows, "trans_type") \ {NaN} = {} \* line 740
         THEN "raised"
         ELSE "rendered"
    ELSE "no_data"                                  \* line 755

InitMain ==
    /\ \E t \in Tables : NonNullDates(t) # {} /\ data = WithIndex(t)
    /\ date_range = <<>> /\ divisions = {} /\ payment_methods = {}
    /\ filtered = <<>>
    /\ outcome = "loaded"
    /\ SegIdle /\ UnifyIdle /\ CategoryIdle /\ MarginIdle /\ TimeIdle /\ LoadIdle
    /\ DictIdle /\ RankIdle /\ LaunchIdle

\* main from line 640 on, with the values the three widgets return
Main(dr, divs, pms) ==
    /\ outcome = "loaded"
    /\ date_range' = dr
    /\ divisions' = divs
    /\ payment_methods' = pms
    /\ filtered' = ApplyFilters(data, dr, divs, pms)
    /\ outcome' = PassOutcome(filtered')
    /\ UNCHANGED <<data, segVars, unifyVars, categoryVars, marginVars, timeVars, loadVars,
                   dictVars, rankVars, launchVars>>

\* the next interaction runs the script again: load_data returns the cached
\* tables, main's locals start afresh
Rerun ==
    /\ outcome \in {"rendered", "no_data", "raised"}
    /\ date_range' = <<>> /\ divisions' = {} /\ payment_methods' = {}
    /\ filtered' = <<>>
    /\ outcome' = "loaded"
    /\ UNCHANGED <<data, segVars, unifyVars, categoryVars, marginVars, timeVars, loadVars,
                   dictVars, rankVars, launchVars>>

NextMain ==
    \/ \E dr \in DateInputs(data),
          divs \in SUBSET Unique(data, "division"),
          pms \in SUBSET Unique(data, "trans_type") : Main(dr, divs, pms)
    \/ Rerun

SpecMain == InitMain /\ [][NextMain]_vars

PassDone == outcome \in {"rendered", "no_data", "raised"}

\* C3: when the filters select zero rows of a non-empty unified table, the
\* pass completes without raising and ends in the "no data" state.
C3_EmptyPassNoData ==
    (PassDone /\ data # <<>> /\ filtered = <<>>) => outcome = "no_data"

\* C4: with an empty divisions selection, an empty payment-methods selection
\* and the date range [minimum date, maximum date] of the table, the filter
\* returns exactly the original records, also when some joined date, division
\* or payment type is null.
C4_FilterIdentity ==
    (/\ PassDone
     /\ divisions = {} /\ payment_methods = {}
     /\ date_range = <<MinDate(data), MaxDate(data)>>) => filtered = data

InDateRange(row) ==
    \E d \in date_range[1]..date_range[2] : row.date \in {d * 24 + h : h \in 0..23}

Kept(row) ==
    /\ InDateRange(row)
    /\ divisions # {} => row.division \in divisions
    /\ payment_methods # {} => row.trans_type \in payment_methods

\* C5: with a date range selected, the filter output is exactly the
\* subsequence, in input order, of the records whose date lies in the range
\* (both bounds included), whose division is among the selected divisions and
\* whose payment type is among the selected payment methods; an empty
\* divisions or payment-methods selection removes no record on its account.
C5_FilterSubsequence ==
    (PassDone /\ Len(date_range) = 2) =>
        /\ \A i \in DOMAIN filtered :
              /\ filtered[i].idx \in DOMAIN data
              /\ filtered[i] = data[filtered[i].idx]
        /\ \A i, j \in DOMAIN filtered : i < j => filtered[i].idx < filtered[j].idx
        /\ {filtered[i].idx : i \in DOMAIN filtered}
              = {k \in DOMAIN data : Kept(data[k])}

\* a pass with all three predicates in force kept the second record and
\* removed the first
C5_Witness ==
    /\ PassDone /\ Len(date_range) = 2
    /\ divisions # {} /\ payment_methods # {}
    /\ Len(data) = 2 /\ Len(filtered) = 1 /\ filtered[1].idx = 2
    /\ DtDate(data[2].date) = date_range[2]

KeptWhateverDate(row) ==
    /\ divisions # {} => row.division \in divisions
    /\ payment_methods # {} => row.trans_type \in payment_methods

\* C14: when the date selector holds fewer than two dates, no record is
\* removed on account of its date and records with a null date are kept: the
\* filter output is exactly the subsequence, in input order, of the records
\* that meet the division and payment-method predicates, which still apply.
C14_NoDateFilterWithoutRange ==
    (PassDone /\ Len(date_range) < 2) =>
        /\ \A i \in DOMAIN filtered :
              /\ filtered[i].idx \in DOMAIN data
              /\ filtered[i] = data[filtered[i].idx]
        /\ \A i, j \in DOMAIN filtered : i < j => filtered[i].idx < filtered[j].idx
        /\ {filtered[i].idx : i \in DOMAIN filtered}
              = {k \in DOMAIN data : KeptWhateverDate(data[k])}

\* with only a start date picked, a pass kept a record with a null date and
\* removed the record of the start date for its division
C14_Witness ==
    /\ PassDone /\ Len(date_range) = 1
    /\ Len(data) = 2 /\ Len(filtered) = 1
    /\ filtered[1].idx = 1 /\ filtered[1].date = NaT
    /\ DtDate(data[2].date) = date_range[1]
    /\ data[2].division \notin divisions

(***************************************************************************)
(* load_data: the five left joins on the fact table                        *)
(***************************************************************************)
MaxFactRows == 2

Keys == {1, 2}
Null == 0            \* a joined field of a fact row without a matching dimension row

\* a dimension table: its key column; row i carries the attribute value i
DimTables == {<<1>>, <<1, 2>>, <<1, 1>>}

FactTables ==
    UNION {[1..n -> [coustomer_key : Keys, item_key : Keys, store_key : Keys,
                     time_key : Keys, payment_key : Keys]] : n \in 0..MaxFactRows}

\* the fact table as loaded: row i carries the index label i, and no joined field
FactFrame(t) ==
    [i \in DOMAIN t |->
        [idx |-> i, coustomer_key |-> t[i].coustomer_key, item_key |-> t[i].item_key,
         store_key |-> t[i].store_key, time_key |-> t[i].time_key,
         payment_key |-> t[i].payment_key,
         name |-> Null, item_name |-> Null, division |-> Null, date |-> Null,
         trans_type |-> Null]]

RECURSIVE Concat(_)
Concat(ss) == IF ss = <<>> THEN <<>> ELSE Head(ss) \o Concat(Tail(ss))

\* the rows of dimension table dim whose key is k, in table order
Matches(dim, k) == SelectSeq([j \in DOMAIN dim |-> [key |-> dim[j], val |-> j]],
                             LAMBDA d : d.key = k)

\* DataFrame.merge(how="inner"): a left row without a match is dropped
merge_inner(left, dim, on, field) ==
    Concat([i \in DOMAIN left |->
        LET m == Matches(dim, left[i][on])
        IN  [j \in DOMAIN m |-> [left[i] EXCEPT ![field] = m[j].val]]])

\* DataFrame.merge(dim, on=on, how="left"): the left rows in order, each once
\* per matching dimension row, or once with a null field when none matches
merge(left, dim, on, field) ==
    Concat([i \in DOMAIN left |->
        LET m == Matches(dim, left[i][on])
        IN  IF m = <<>>
            THEN <<left[i]>>
            ELSE [j \in DOMAIN m |-> [left[i] EXCEPT ![field] = m[j].val]]])

InitUnify ==
    /\ fact_table \in {FactFrame(t) : t \in FactTables}
    /\ customer_dim \in DimTables
    /\ item_dim \in DimTables
    /\ store_dim \in DimTables
    /\ time_dim \in DimTables
    /\ trans_dim \in DimTables
    /\ comprehensive_data = <<>>
    /\ unified = FALSE
    /\ SegIdle /\ MainIdle /\ CategoryIdle /\ MarginIdle /\ TimeIdle /\ LoadIdle
    /\ DictIdle /\ RankIdle /\ LaunchIdle

\* lines 101-126
Unify ==
    /\ ~unified
    /\ comprehensive_data' =
          merge(merge(merge(merge(merge(fact_table,
                customer_dim, "coustomer_key", "name"),
                item_dim, "item_key", "item_name"),
                store_dim, "store_key", "division"),
                time_dim, "time_key", "date"),
                trans_dim, "payment_key", "trans_type")
    /\ unified' = TRUE
    /\ UNCHANGED <<fact_table, customer_dim, item_dim, store_dim, time_dim, trans_dim>>
    /\ UNCHANGED <<segVars, mainVars, categoryVars, marginVars, timeVars, loadVars,
                   dictVars, rankVars, launchVars>>

NextUnify == Unify

SpecUnify == InitUnify /\ [][NextUnify]_vars

UniqueKeys(dim) == \A i, j \in DOMAIN dim : dim[i] = dim[j] => i = j

HasKey(dim, k) == \E j \in DOMAIN dim : dim[j] = k

\* the joined field is null exactly when the dimension has no row for the key
JoinedField(row, dim, on, field) ==
    IF HasKey(dim, row[on])
    THEN row[field] \in DOMAIN dim /\ dim[row[field]] = row[on]
    ELSE row[field] = Null

\* C6: unification never drops a fact row, whether or not each of its five
\* foreign keys has a matching dimension row (an unmatched dimension's field
\* is null); when every dimension table has unique keys the unified table has
\* exactly one record per fact row, in fact-table order.
C6_NoFactRowDropped ==
    unified =>
        /\ \A i \in DOMAIN fact_table :
              \E k \in DOMAIN comprehensive_data :
                 LET row == comprehensive_data[k] IN
                 /\ row.idx = i
                 /\ row.coustomer_key = fact_table[i].coustomer_key
                 /\ row.item_key = fact_table[i].item_key
                 /\ row.store_key = fact_table[i].store_key
                 /\ row.time_key = fact_table[i].time_key
                 /\ row.payment_key = fact_table[i].payment_key
                 /\ JoinedField(row, customer_dim, "coustomer_key", "name")
                 /\ JoinedField(row, item_dim, "item_key", "item_name")
                 /\ JoinedField(row, store_dim, "store_key", "division")
                 /\ JoinedField(row, time_dim, "time_key", "date")
                 /\ JoinedField(row, trans_dim, "payment_key", "trans_type")
        /\ (/\ UniqueKeys(customer_dim) /\ UniqueKeys(item_dim)
            /\ UniqueKeys(store_dim) /\ UniqueKeys(time_dim)
            /\ UniqueKeys(trans_dim)) =>
              /\ Len(comprehensive_data) = Len(fact_table)
              /\ \A k \in DOMAIN comprehensive_data : comprehensive_data[k].idx = k

\* two fact rows were unified against unique-key dimensions; the first has no
\* matching store and no matching payment row, the second matches everywhere
C6_Witness ==
    /\ unified
    /\ Len(fact_table) = 2 /\ Len(comprehensive_data) = 2
    /\ UniqueKeys(customer_dim) /\ UniqueKeys(item_dim) /\ UniqueKeys(store_dim)
    /\ UniqueKeys(time_dim) /\ UniqueKeys(trans_dim)
    /\ comprehensive_data[1].division = Null
    /\ comprehensive_data[1].trans_type = Null
    /\ comprehensive_data[1].name # Null
    /\ \A f \in {"name", "item_name", "division", "date", "trans_type"} :
          comprehensive_data[2][f] # Null

(***************************************************************************)
(* load_data: profit_margin of one unified record                          *)
(***************************************************************************)
MaxPrice == 9

\* float64 results: a finite quotient num/den, an infinity, or NaN (which is
\* also pandas' missing value of a float column)
Finite(num, den) == [kind |-> "num", num |-> num, den |-> den]
Infinity(sign)   == [kind |-> "inf", sign |-> sign]
FloatNaN         == [kind |-> "nan"]

\* (total_price - unit_price * 0.7) / total_price * 100 on float64 columns:
\* division by zero does not raise, x/0 is +-inf and 0/0 is NaN.  The finite
\* value is kept as the exact quotient (10*total - 7*unit) * 10 / total.
ProfitMargin(unit, total) ==
    LET tenfold == 10 * total - 7 * unit      \* 10 * (total - unit * 0.7)
    IN  IF total # 0 THEN Finite(tenfold * 10, total)
        ELSE IF tenfold = 0 THEN FloatNaN
        ELSE IF tenfold < 0 THEN Infinity(-1)
        ELSE Infinity(1)

InitMargin ==
    /\ unit_price \in 0..MaxPrice
    /\ total_price \in 0..MaxPrice
    /\ profit_margin = [kind |-> "unset"]
    /\ SegIdle /\ MainIdle /\ UnifyIdle /\ CategoryIdle /\ TimeIdle /\ LoadIdle
    /\ DictIdle /\ RankIdle /\ LaunchIdle

\* lines 128-136
DeriveProfitMargin ==
    /\ profit_margin.kind = "unset"
    /\ profit_margin' = ProfitMargin(unit_price, total_price)
    /\ UNCHANGED <<unit_price, total_price>>
    /\ UNCHANGED <<segVars, mainVars, unifyVars, categoryVars, timeVars, loadVars,
                   dictVars, rankVars, launchVars>>

NextMargin == DeriveProfitMargin

SpecMargin == InitMargin /\ [][NextMargin]_vars

\* C7: for a record with total_price = 0, whatever its unit_price, the
\* profit_margin is null, never an infinity; for total_price # 0 it equals
\* (total_price - unit_price * 0.7) / total_price * 100.
C7_ProfitMarginNullAtZero ==
    profit_margin.kind # "unset" =>
        IF total_price = 0
        THEN profit_margin.kind = "nan"
        ELSE /\ profit_margin.kind = "num"
             /\ profit_margin.num * 10 * total_price
                  = (10 * total_price - 7 * unit_price) * 100 * profit_margin.den

(***************************************************************************)
(* load_data: main_category of one item                                    *)
(***************************************************************************)
MaxDescLen == 6

Chars == {" ", "-", "a"}
Delimiter == <<" ", "-", " ">>
DescNaN == <<"NaN">>          \* a missing description
Unset == <<"unset">>

Descriptions ==
    UNION {[1..n -> Chars] : n \in 0..MaxDescLen} \cup {DescNaN}

\* position of the first occurrence of sep in x at or after i, 0 when none
RECURSIVE FindFrom(_, _, _)
FindFrom(x, sep, i) ==
    IF i + Len(sep) - 1 > Len(x) THEN 0
    ELSE IF SubSeq(x, i, i + Len(sep) - 1) = sep THEN i
    ELSE FindFrom(x, sep, i + 1)

\* position of the last occurrence of sep in x at or before i, 0 when none
RECURSIVE FindBack(_, _, _)
FindBack(x, sep, i) ==
    IF i < 1 THEN 0
    ELSE IF i + Len(sep) - 1 <= Len(x) /\ SubSeq(x, i, i + Len(sep) - 1) = sep THEN i
    ELSE FindBack(x, sep, i - 1)

\* sep in x
Contains(x, sep) == FindFrom(x, sep, 1) # 0

\* x.rsplit(sep, 1)[0]: the text before the last occurrence
SplitFirst_last(x, sep) ==
    LET k == FindBack(x, sep, Len(x)) IN IF k = 0 THEN x ELSE SubSeq(x, 1, k - 1)

\* x.split(sep)[0]: the text before the first occurrence
SplitFirst(x, sep) ==
    LET k == FindFrom(x, sep, 1) IN IF k = 0 THEN x ELSE SubSeq(x, 1, k - 1)

\* str.strip(): leading and trailing whitespace removed
RECURSIVE Strip(_)
Strip(x) ==
    IF x = <<>> THEN x
    ELSE IF Head(x) = " " THEN Strip(Tail(x))
    ELSE IF x[Len(x)] = " " THEN Strip(SubSeq(x, 1, Len(x) - 1))
    ELSE x

\* str(x): the text of a missing description is "nan"
Str(x) == IF x = DescNaN THEN <<"n", "a", "n">> ELSE x

\* lines 90-96
MainCategory(x) ==
    IF x # DescNaN /\ Contains(x, Delimiter)
    THEN Strip(SplitFirst(x, Delimiter))
    ELSE Strip(Str(x))

InitCategory ==
    /\ desc \in Descriptions
    /\ main_category = Unset
    /\ SegIdle /\ MainIdle /\ UnifyIdle /\ MarginIdle /\ TimeIdle /\ LoadIdle
    /\ DictIdle /\ RankIdle /\ LaunchIdle

\* item_dim["main_category"] = item_dim["desc"].apply(...), for one item
DeriveMainCategory ==
    /\ main_category = Unset
    /\ main_category' = MainCategory(desc)
    /\ UNCHANGED desc
    /\ UNCHANGED <<segVars, mainVars, unifyVars, marginVars, timeVars, loadVars,
                   dictVars, rankVars, launchVars>>

NextCategory == DeriveMainCategory

SpecCategory == InitCategory /\ [][NextCategory]_vars

Occurrences(x) ==
    {i \in 1..Len(x) - 2 : x[i] = " " /\ x[i + 1] = "-" /\ x[i + 2] = " "}

\* t is s without its leading and trailing spaces
IsTrimOf(t, s) ==
    /\ t = <<>> \/ (t[1] # " " /\ t[Len(t)] # " ")
    /\ \E a \in 0..Len(s) :
          /\ a + Len(t) <= Len(s)
          /\ t = SubSeq(s, a + 1, a + Len(t))
          /\ \A i \in 1..Len(s) : (i <= a \/ i > a + Len(t)) => s[i] = " "

\* C8: for every description string, main_category is the trimmed text before
\* the first occurrence of " - " when it occurs (also more than once) and the
\* whole trimmed description otherwise: "Electronics - Phones" gives
\* "Electronics" and "Misc" gives "Misc".
C8_MainCategory ==
    /\ (main_category # Unset /\ desc # DescNaN) =>
          LET occ == Occurrences(desc) IN
          IF occ # {}
          THEN IsTrimOf(main_category,
                        SubSeq(desc, 1, (CHOOSE i \in occ : \A j \in occ : i <= j) - 1))
          ELSE IsTrimOf(main_category, desc)
    /\ MainCategory(<<"E", "l", "e", "c", "t", "r", "o", "n", "i", "c", "s",
                      " ", "-", " ", "P", "h", "o", "n", "e", "s">>)
          = <<"E", "l", "e", "c", "t", "r", "o", "n", "i", "c", "s">>
    /\ MainCategory(<<"M", "i", "s", "c">>) = <<"M", "i", "s", "c">>

\* the category of a description with two delimiters and a space to trim
C8_Witness ==
    /\ main_category # Unset
    /\ desc # DescNaN
    /\ Cardinality(Occurrences(desc)) >= 2
    /\ main_category = <<"a">>

(***************************************************************************)
(* create_time_analysis: weekday revenue and the weekday-by-hour heatmap   *)
(***************************************************************************)
MaxTimeRows == 2

WeekDays == 1..7
SaleHours == {9, 21}
Prices == {10, 25}

\* the list passed to reindex at lines 498-506, and again at lines 536-544
weekday_order ==
    <<"Monday", "Tuesday", "Wednesday", "Thursday", "Friday", "Saturday", "Sunday">>

\* the weekday names in the order a sorted index holds them
SortedWeekdays ==
    <<"Friday", "Monday", "Saturday", "Sunday", "Thursday", "Tuesday", "Wednesday">>

\* Series.dt.day_name(): day 1 is a Monday; null for NaT
DayName(ts) == IF ts = NaT THEN NaN ELSE weekday_order[((DtDate(ts) - 1) % 7) + 1]

\* Series.dt.hour: null for NaT
DtHour(ts) == IF ts = NaT THEN NaT ELSE ts % 24

TimeTables ==
    UNION {[1..n -> [date : {d * 24 + h : d \in WeekDays, h \in SaleHours} \cup {NaT},
                     total_price : Prices]] : n \in 1..MaxTimeRows}

\* the rows as load_data left them: with the weekday column, without an hour
TimeFrame(t) ==
    [i \in DOMAIN t |-> [date |-> t[i].date, total_price |-> t[i].total_price,
                         weekday |-> DayName(t[i].date)]]

RECURSIVE SumPrices(_)
SumPrices(rows) ==
    IF rows = <<>> THEN 0 ELSE Head(rows).total_price + SumPrices(Tail(rows))

\* data.groupby("weekday")["total_price"].sum(): one entry per weekday present
\* (null keys dropped), the index sorted
GroupByWeekday(rows) ==
    LET present == SelectSeq(SortedWeekdays,
                             LAMBDA w : \E i \in DOMAIN rows : rows[i].weekday = w)
    IN  [k \in DOMAIN present |->
            [weekday |-> present[k],
             value   |-> <<SumPrices(SelectSeq(rows, LAMBDA r : r.weekday = present[k]))>>]]

\* groupby(["weekday", "hour"]).sum() pivoted on weekday: one row per weekday
\* present, the index sorted, one cell per (weekday, hour) pair present
PivotByWeekday(rows) ==
    LET present == SelectSeq(SortedWeekdays,
                             LAMBDA w : \E i \in DOMAIN rows : rows[i].weekday = w)
        hours   == {rows[i].hour : i \in DOMAIN rows} \ {NaT}
    IN  [k \in DOMAIN present |->
            [weekday |-> present[k],
             value   |-> [h \in hours |->
                 LET cell == SelectSeq(rows, LAMBDA r : r.weekday = present[k] /\ r.hour = h)
                 IN  IF cell = <<>> THEN <<>> ELSE <<SumPrices(cell)>>]]]

\* the series or frame left as the groupby indexed it
Reindex_skipped(frame, labels, missing) == frame

\* .reindex(labels): one entry per label, in the order of labels, the value
\* of the label in frame or missing when frame has none
Reindex(frame, labels, missing) ==
    [k \in DOMAIN labels |->
        IF \E j \in DOMAIN frame : frame[j].weekday = labels[k]
        THEN frame[CHOOSE j \in DOMAIN frame : frame[j].weekday = labels[k]]
        ELSE [weekday |-> labels[k], value |-> missing]]

\* data["hour"] = pd.to_datetime(data["date"]).dt.hour
WithHour(rows) ==
    [i \in DOMAIN rows |->
        [date |-> rows[i].date, total_price |-> rows[i].total_price,
         weekday |-> rows[i].weekday, hour |-> DtHour(rows[i].date)]]

InitTime ==
    /\ time_data \in {TimeFrame(t) : t \in TimeTables}
    /\ weekday_revenue = <<>>
    /\ heatmap_data = <<>>
    /\ analysed = FALSE
    /\ SegIdle /\ MainIdle /\ UnifyIdle /\ CategoryIdle /\ MarginIdle /\ LoadIdle
    /\ DictIdle /\ RankIdle /\ LaunchIdle

\* lines 484-559
create_time_analysis ==
    /\ ~analysed
    /\ weekday_revenue' = Reindex(GroupByWeekday(time_data), weekday_order, <<>>)
    /\ time_data' = WithHour(time_data)
    /\ heatmap_data' =
          LET pivot == PivotByWeekday(time_data')
              hours == {time_data'[i].hour : i \in DOMAIN time_data'} \ {NaT}
          IN  Reindex(pivot, weekday_order, [h \in hours |-> <<>>])
    /\ analysed' = TRUE
    /\ UNCHANGED <<segVars, mainVars, unifyVars, categoryVars, marginVars, loadVars,
                   dictVars, rankVars, launchVars>>

NextTime == create_time_analysis

SpecTime == InitTime /\ [][NextTime]_vars

Index(frame) == [k \in DOMAIN frame |-> frame[k].weekday]

MondayToSunday ==
    <<"Monday", "Tuesday", "Wednesday", "Thursday", "Friday", "Saturday", "Sunday">>

\* C9: the weekday revenue aggregation and the row index of the heatmap
\* matrix list the weekdays Monday, Tuesday, ..., Sunday in that order, for
\* every order of the input rows and every subset of weekdays present.
C9_WeekdayOrder ==
    analysed =>
        /\ Index(weekday_revenue) = MondayToSunday
        /\ Index(heatmap_data) = MondayToSunday

\* rows of a Thursday and then a Monday were aggregated: the Monday entry
\* comes first although Thursday is first in the input and Friday..Wednesday
\* have no row
C9_Witness ==
    /\ analysed
    /\ Len(time_data) = 2
    /\ time_data[1].weekday = "Thursday" /\ time_data[2].weekday = "Monday"
    /\ weekday_revenue[1].value # <<>> /\ weekday_revenue[4].value # <<>>
    /\ weekday_revenue[5].value = <<>>
    /\ heatmap_data[1].weekday = "Monday"

\* C13: an aggregation function leaves the record collection it is given
\* unchanged: the table has the same rows, columns and values after the call
\* as before it, so the stages after it see the table the filter produced.
C13_InputUnchanged == [][time_data' = time_data]_vars

(***************************************************************************)
(* load_csv_with_encoding: one file                                        *)
(***************************************************************************)
\* line 66
encodings == <<"utf-8", "latin-1", "iso-8859-1", "cp1252", "utf-8-sig">>

\* What pd.read_csv(filename, encoding=e) does for a file: it returns a table,
\* raises UnicodeDecodeError, or raises something else (a parser error; for an
\* absent file FileNotFoundError, whatever the encoding).  The library call is
\* a black box: every combination of outcomes is taken as possible.
ReadOutcomes == {"table", "UnicodeDecodeError", "ParserError"}

FileStates ==
    [DOMAIN encodings -> ReadOutcomes]
        \cup {[k \in DOMAIN encodings |-> "FileNotFoundError"]}

\* an except clause that catches every exception
Caught_any(raisedError) == raisedError # "table"

\* except UnicodeDecodeError: continue
Caught(raisedError) == raisedError = "UnicodeDecodeError"

InitLoad ==
    /\ file_state \in FileStates
    /\ tried = <<>>
    /\ load_result = "running"
    /\ SegIdle /\ MainIdle /\ UnifyIdle /\ CategoryIdle /\ MarginIdle /\ TimeIdle
    /\ DictIdle /\ RankIdle /\ LaunchIdle

\* one iteration of the loop at lines 67-71, and line 72 once the list is
\* exhausted
TryEncoding ==
    /\ load_result = "running"
    /\ Len(tried) < Len(encodings)
    /\ LET k   == Len(tried) + 1
           res == file_state[k]
       IN  /\ tried' = Append(tried, encodings[k])
           /\ load_result' =
                 IF res = "table" THEN "returned"
                 ELSE IF Caught(res)
                 THEN IF k = Len(encodings) THEN "could_not_load" ELSE "running"
                 ELSE "raised"
    /\ UNCHANGED file_state
    /\ UNCHANGED <<segVars, mainVars, unifyVars, categoryVars, marginVars, timeVars,
                   dictVars, rankVars, launchVars>>

NextLoad == TryEncoding

SpecLoad == InitLoad /\ [][NextLoad]_vars

IsPrefix(p, q) == Len(p) <= Len(q) /\ p = SubSeq(q, 1, Len(p))

EncodingOrder == <<"utf-8", "latin-1", "iso-8859-1", "cp1252", "utf-8-sig">>

\* the encodings whose read gives no decode error
NoDecodeError == {k \in DOMAIN EncodingOrder : file_state[k] # "UnicodeDecodeError"}

LoadFailed == load_result \in {"could_not_load", "raised"}

\* C10: the encodings are tried in the order utf-8, latin-1, iso-8859-1,
\* cp1252, utf-8-sig; the table of the first encoding that reads without a
\* decode error is returned and no later encoding is tried; the load fails
\* when every encoding gives a decode error or the file is absent; an error
\* that is not a decode error is not followed by a try of the next encoding.
C10_EncodingFallback ==
    /\ IsPrefix(tried, EncodingOrder)
    /\ \A k \in 1..Len(tried) - 1 : file_state[k] = "UnicodeDecodeError"
    /\ load_result = "returned" =>
          /\ file_state[Len(tried)] = "table"
          /\ Len(tried) = Minimum(NoDecodeError)
    /\ (Len(tried) >= 1 /\ file_state[Len(tried)] \notin {"table", "UnicodeDecodeError"})
          => load_result = "raised"
    /\ (Len(tried) >= 1 /\ file_state[Len(tried)] = "table") => load_result = "returned"
    /\ (Len(tried) = Len(EncodingOrder) /\ NoDecodeError = {}) => LoadFailed
    /\ load_result = "running" =>
          \A k \in 1..Len(tried) : file_state[k] = "UnicodeDecodeError"
    /\ (file_state[1] = "FileNotFoundError" /\ tried # <<>>)
          => (LoadFailed /\ Len(tried) = 1)

\* utf-8 gave a decode error, latin-1 read the file: its table was returned
\* and iso-8859-1, which would raise a parser error, was never tried
C10_Witness ==
    /\ load_result = "returned"
    /\ tried = <<"utf-8", "latin-1">>
    /\ file_state[1] = "UnicodeDecodeError"
    /\ file_state[3] = "ParserError"

(***************************************************************************)
(* load_data as a whole, and main up to line 640                           *)
(***************************************************************************)
MaxAbsent == 2

\* lines 76-81: the files in the order load_data loads them
csv_names ==
    <<"customer_dim", "item_dim", "store_dim", "time_dim", "trans_dim", "fact_table">>

CsvNames == {csv_names[k] : k \in DOMAIN csv_names}

\* the columns of each input table that load_data reads (lines 85-142);
\* main_category is made at line 90 and is no column of the file
UsedColumns ==
    [customer_dim |-> {"coustomer_key", "name"},
     item_dim     |-> {"desc", "item_key", "item_name", "man_country", "supplier"},
     store_dim    |-> {"store_key"},
     time_dim     |-> {"date", "time_key", "year", "month", "quarter"},
     trans_dim    |-> {"bank_name", "payment_key"},
     fact_table   |-> {"coustomer_key", "item_key", "store_key", "time_key",
                       "payment_key", "total_price", "unit_price"}]

ColumnPairs == UNION {{<<t, c>> : c \in UsedColumns[t]} : t \in CsvNames}

\* the merges of lines 102-126 in order: the dimension, the columns taken
\* from it and the key, which both sides must have
merges ==
    << [dim |-> "customer_dim", cols |-> {"coustomer_key", "name"},
        on |-> "coustomer_key"],
       [dim |-> "item_dim", cols |-> {"item_key", "item_name", "man_country", "supplier"},
        on |-> "item_key"],
       [dim |-> "store_dim", cols |-> {"store_key"}, on |-> "store_key"],
       [dim |-> "time_dim", cols |-> {"time_key", "date", "year", "month", "quarter"},
        on |-> "time_key"],
       [dim |-> "trans_dim", cols |-> {"payment_key"}, on |-> "payment_key"] >>

\* the sets of at most n column pairs
RECURSIVE AbsentSets(_)
AbsentSets(n) ==
    IF n = 0 THEN {{}}
    ELSE AbsentSets(n - 1) \cup {a \cup {p} : a \in AbsentSets(n - 1), p \in ColumnPairs}

None == [kind |-> "None"]

\* a column lookup that never raises
HasColumns_unchecked(table, cols) == TRUE

\* table[col] / table[[cols]] / merge(on=col): KeyError unless every column is there
HasColumns(table, cols) == \A c \in cols : <<table, c>> \notin absent_columns

InitLoadData ==
    /\ csv_files \in [CsvNames -> {"table", "LoadError"}]
    /\ absent_columns \in AbsentSets(MaxAbsent)
    /\ pc = "load"
    /\ loaded = <<>>
    /\ joined = <<>>
    /\ data_dict = [kind |-> "unset"]
    /\ shown = <<>>
    /\ page = "loading"
    /\ SegIdle /\ MainIdle /\ UnifyIdle /\ CategoryIdle /\ MarginIdle /\ TimeIdle
    /\ LoadIdle /\ RankIdle /\ LaunchIdle

\* one of lines 76-81: load_csv_with_encoding returns the table or raises
LoadFile ==
    /\ pc = "load"
    /\ LET name == csv_names[Len(loaded) + 1]
       IN  IF csv_files[name] = "table"
           THEN /\ loaded' = Append(loaded, name)
                /\ pc' = IF Len(loaded') = Len(csv_names) THEN "clean" ELSE "load"
           ELSE /\ pc' = "except"
                /\ UNCHANGED loaded
    /\ UNCHANGED <<csv_files, absent_columns, joined, data_dict, shown, page>>
    /\ UNCHANGED <<segVars, mainVars, unifyVars, categoryVars, marginVars, timeVars,
                   loadVars, rankVars, launchVars>>

\* lines 85-99: the date conversion, main_category, the bank_name replacement
CleanColumns ==
    /\ pc = "clean"
    /\ pc' = IF /\ HasColumns("time_dim", {"date"})
                /\ HasColumns("item_dim", {"desc"})
                /\ HasColumns("trans_dim", {"bank_name"})
             THEN "merge" ELSE "except"
    /\ UNCHANGED <<csv_files, absent_columns, loaded, joined, data_dict, shown, page>>
    /\ UNCHANGED <<segVars, mainVars, unifyVars, categoryVars, marginVars, timeVars,
                   loadVars, rankVars, launchVars>>

\* one .merge of lines 102-126
MergeDimension ==
    /\ pc = "merge"
    /\ LET m == merges[Len(joined) + 1]
       IN  IF HasColumns(m.dim, m.cols) /\ HasColumns("fact_table", {m.on})
           THEN /\ joined' = Append(joined, m.dim)
                /\ pc' = IF Len(joined') = Len(merges) THEN "derive" ELSE "merge"
           ELSE /\ pc' = "except"
                /\ UNCHANGED joined
    /\ UNCHANGED <<csv_files, absent_columns, loaded, data_dict, shown, page>>
    /\ UNCHANGED <<segVars, mainVars, unifyVars, categoryVars, marginVars, timeVars,
                   loadVars, rankVars, launchVars>>

\* lines 128-152: the derived columns, then the return of the dictionary
DeriveMetrics ==
    /\ pc = "derive"
    /\ IF HasColumns("fact_table", {"total_price", "unit_price"})
       THEN /\ data_dict' = [kind |-> "dict",
                             comprehensive |-> [joined  |-> joined,
                                                derived |-> {"profit_margin", "month_name",
                                                             "weekday"}]]
            /\ pc' = "done"
       ELSE /\ pc' = "except"
            /\ UNCHANGED data_dict
    /\ UNCHANGED <<csv_files, absent_columns, loaded, joined, shown, page>>
    /\ UNCHANGED <<segVars, mainVars, unifyVars, categoryVars, marginVars, timeVars,
                   loadVars, rankVars, launchVars>>

\* lines 153-155: except Exception
Except ==
    /\ pc = "except"
    /\ shown' = Append(shown, "Error loading data")
    /\ data_dict' = None
    /\ pc' = "done"
    /\ UNCHANGED <<csv_files, absent_columns, loaded, joined, page>>
    /\ UNCHANGED <<segVars, mainVars, unifyVars, categoryVars, marginVars, timeVars,
                   loadVars, rankVars, launchVars>>

\* lines 632-640: main after load_data has returned; "dashboard" stands for
\* everything from line 640 on (the filters and the sections)
MainAfterLoad ==
    /\ pc = "done"
    /\ page = "loading"
    /\ IF data_dict = None
       THEN /\ shown' = Append(shown, "Failed to load data")
            /\ page' = "returned"
       ELSE /\ page' = "dashboard"
            /\ UNCHANGED shown
    /\ UNCHANGED <<csv_files, absent_columns, pc, loaded, joined, data_dict>>
    /\ UNCHANGED <<segVars, mainVars, unifyVars, categoryVars, marginVars, timeVars,
                   loadVars, rankVars, launchVars>>

NextLoadData ==
    \/ LoadFile
    \/ CleanColumns
    \/ MergeDimension
    \/ DeriveMetrics
    \/ Except
    \/ MainAfterLoad

SpecLoadData == InitLoadData /\ [][NextLoadData]_vars

SomeFileFails == \E f \in CsvNames : csv_files[f] # "table"

AllDimensions == <<"customer_dim", "item_dim", "store_dim", "time_dim", "trans_dim">>

\* C11: when one of the six files fails to load or an input table lacks a
\* column the unifier reads, load_data returns None and never a table (a
\* returned table carries all five joins and the derived columns), the error
\* is shown, and main returns at once: no filter is applied and no section
\* is rendered.
C11_NoPartialDashboard ==
    /\ data_dict.kind = "dict" =>
          /\ data_dict.comprehensive.joined = AllDimensions
          /\ data_dict.comprehensive.derived = {"profit_margin", "month_name", "weekday"}
          /\ ~SomeFileFails /\ absent_columns = {}
    /\ (pc = "done" /\ (SomeFileFails \/ absent_columns # {})) =>
          /\ data_dict = None
          /\ shown[1] = "Error loading data"
    /\ (page # "loading" /\ (SomeFileFails \/ absent_columns # {})) =>
          /\ page = "returned"
          /\ shown = <<"Error loading data", "Failed to load data">>
    /\ page = "dashboard" => data_dict.kind = "dict"

\* every file loaded and two dimensions were merged before a missing column
\* stopped the third merge: main has returned with None and both messages
C11_Witness ==
    /\ page = "returned"
    /\ Len(loaded) = 6
    /\ Len(joined) = 2
    /\ data_dict = None
    /\ Len(shown) = 2

(***************************************************************************)
(* The top-N rankings: create_product_analysis, create_payment_analysis    *)
(***************************************************************************)
MaxRankRows == 2

\* the group keys of the model, in the order a sorted index holds them
SortedKeys == <<"a", "b", "c", "d", "e", "f", "g", "h", "i", "j", "k">>

RankKeys == {"a", "b"}
RankPrices == {10, 20}

RankRows ==
    [main_category : RankKeys, man_country : RankKeys, trans_type : {"card", "cash"},
     bank_name : RankKeys \cup {NaN}, total_price : RankPrices]

\* eleven rows of equal revenue, one per category and per bank, the keys in
\* descending alphabetical order
ElevenGroups ==
    [i \in 1..11 |->
        [main_category |-> SortedKeys[12 - i], man_country |-> "a",
         trans_type |-> "card", bank_name |-> SortedKeys[12 - i], total_price |-> 10]]

RankTables == UNION {[1..n -> RankRows] : n \in 1..MaxRankRows} \cup {ElevenGroups}

\* data.groupby(col)["total_price"].sum(): one entry per key present (null
\* keys dropped), the index sorted by key
GroupBySum(rows, col) ==
    LET present == SelectSeq(SortedKeys, LAMBDA g : \E i \in DOMAIN rows : rows[i][col] = g)
    IN  [k \in DOMAIN present |->
            [key   |-> present[k],
             value |-> SumPrices(SelectSeq(rows, LAMBDA r : r[col] = present[k]))]]

\* .sort_values(ascending=False): descending by value.  pandas reverses the
\* values, sorts them ascending (numpy's default sort, an insertion sort for
\* the at most 16 groups there are here) and reverses the result: entries of
\* equal value keep the order they had in the frame.
RECURSIVE SortDescending(_)
SortDescending(frame) ==
    IF frame = <<>> THEN <<>>
    ELSE LET rest == SortDescending(Tail(frame))
             k    == Cardinality({i \in DOMAIN rest : rest[i].value > Head(frame).value})
         IN  SubSeq(rest, 1, k) \o <<Head(frame)>> \o SubSeq(rest, k + 1, Len(rest))

\* .head(n)
FirstRows(frame, n) == SubSeq(frame, 1, IF Len(frame) < n THEN Len(frame) ELSE n)

\* data[data["trans_type"] == "card"].dropna(subset=["bank_name"])
BankData(rows) ==
    SelectSeq(rows, LAMBDA r : r.trans_type = "card" /\ r.bank_name # NaN)

InitRank ==
    /\ rank_data \in RankTables
    /\ category_revenue = <<>>
    /\ country_data = <<>>
    /\ bank_revenue = <<>>
    /\ ranked = {}
    /\ SegIdle /\ MainIdle /\ UnifyIdle /\ CategoryIdle /\ MarginIdle /\ TimeIdle
    /\ LoadIdle /\ DictIdle /\ LaunchIdle

\* lines 437-467 (the quantity sum of country_data takes no part in the order)
create_product_analysis ==
    /\ ranked = {}
    /\ category_revenue' =
          FirstRows(SortDescending(GroupBySum(rank_data, "main_category")), 10)
    /\ country_data' =
          FirstRows(SortDescending(GroupBySum(rank_data, "man_country")), 10)
    /\ ranked' = {"product"}
    /\ UNCHANGED <<rank_data, bank_revenue>>
    /\ UNCHANGED <<segVars, mainVars, unifyVars, categoryVars, marginVars, timeVars,
                   loadVars, dictVars, launchVars>>

\* lines 597-605
create_payment_analysis ==
    /\ ranked = {"product"}
    /\ bank_revenue' =
          IF BankData(rank_data) # <<>>
          THEN FirstRows(SortDescending(GroupBySum(BankData(rank_data), "bank_name")), 8)
          ELSE <<>>
    /\ ranked' = {"product", "payment"}
    /\ UNCHANGED <<rank_data, category_revenue, country_data>>
    /\ UNCHANGED <<segVars, mainVars, unifyVars, categoryVars, marginVars, timeVars,
                   loadVars, dictVars, launchVars>>

NextRank ==
    \/ create_product_analysis
    \/ create_payment_analysis

SpecRank == InitRank /\ [][NextRank]_vars

GroupsOf(rows, col) == {rows[i][col] : i \in DOMAIN rows} \ {NaN}

Revenue(rows, col, g) == SumPrices(SelectSeq(rows, LAMBDA r : r[col] = g))

FirstAppearance(rows, col, g) == Minimum({i \in DOMAIN rows : rows[i][col] = g})

\* group g ranks before group h: the higher revenue, or the same revenue and
\* the earlier first row
RanksBefore(rows, col, g, h) ==
    \/ Revenue(rows, col, g) > Revenue(rows, col, h)
    \/ /\ Revenue(rows, col, g) = Revenue(rows, col, h)
       /\ FirstAppearance(rows, col, g) < FirstAppearance(rows, col, h)

IsTopN(ranking, rows, col, n) ==
    LET groups == GroupsOf(rows, col)
        listed == {ranking[i].key : i \in DOMAIN ranking}
    IN  /\ Len(ranking) = (IF Cardinality(groups) < n THEN Cardinality(groups) ELSE n)
        /\ listed \subseteq groups
        /\ \A i \in DOMAIN ranking : ranking[i].value = Revenue(rows, col, ranking[i].key)
        /\ \A i, j \in DOMAIN ranking :
              i < j => RanksBefore(rows, col, ranking[i].key, ranking[j].key)
        /\ \A g \in listed, h \in groups \ listed : RanksBefore(rows, col, g, h)

\* C12: each ranking (main category top 10, manufacturing country top 10,
\* bank name top 8 over the card rows with a bank name) lists the
\* min(N, number of groups) groups of highest summed revenue in descending
\* order of revenue, groups of equal revenue in the order of their first
\* appearance in the input rows, at the cut after N as well.
C12_TopNByFirstAppearance ==
    /\ "product" \in ranked =>
          /\ IsTopN(category_revenue, rank_data, "main_category", 10)
          /\ IsTopN(country_data, rank_data, "man_country", 10)
    /\ "payment" \in ranked =>
          IsTopN(bank_revenue, BankData(rank_data), "bank_name", 8)

(***************************************************************************)
(* launch_dashboard.py: the launcher's main                                *)
(***************************************************************************)
\* lines 16-23
packages ==
    <<"streamlit==1.28.0", "pandas==2.1.0", "numpy==1.24.3", "plotly==5.15.0",
      "seaborn==0.12.2", "matplotlib==3.7.2">>

\* lines 68-75
CsvFileNames ==
    {"customer_dim.csv", "item_dim.csv", "store_dim.csv", "time_dim.csv",
     "Trans_dim.csv", "fact_table.csv"}

\* What subprocess.check_call does for a package: it returns, raises
\* CalledProcessError (pip exited with a non-zero status) or raises something
\* else (OSError when the interpreter cannot be run).
PipResults == {"ok", "CalledProcessError", "OSError"}

\* the loop of lines 25-31 with `continue` in the except clause
AfterInstall_continue(result, k) ==
    IF result \in {"ok", "CalledProcessError"}
    THEN IF k = Len(packages) THEN "prompt" ELSE "install"
    ELSE "raised"

\* where the launcher goes after the k-th package: on in the loop, to the
\* prompt of line 86 after the last one, to line 89 when install_requirements
\* returned False, or out of main with an uncaught exception
AfterInstall(result, k) ==
    IF result = "ok"
    THEN IF k = Len(packages) THEN "prompt" ELSE "install"
    ELSE IF result = "CalledProcessError" THEN "installation_failed"
    ELSE "raised"

InitLaunch ==
    /\ dashboard_exists \in BOOLEAN
    /\ missing_files \in SUBSET CsvFileNames
    /\ pip_results \in [DOMAIN packages -> PipResults]
    /\ attempted = <<>>
    /\ warned = FALSE
    /\ launcher_pc = "start"
    /\ launched = FALSE
    /\ SegIdle /\ MainIdle /\ UnifyIdle /\ CategoryIdle /\ MarginIdle /\ TimeIdle
    /\ LoadIdle /\ DictIdle /\ RankIdle

\* lines 61-81: the directory check and the CSV warning
CheckDirectory ==
    /\ launcher_pc = "start"
    /\ IF ~dashboard_exists
       THEN /\ launcher_pc' = "returned"
            /\ UNCHANGED warned
       ELSE /\ warned' = (missing_files # {})
            /\ launcher_pc' = "install"
    /\ UNCHANGED <<dashboard_exists, missing_files, pip_results, attempted, launched>>
    /\ UNCHANGED <<segVars, mainVars, unifyVars, categoryVars, marginVars, timeVars,
                   loadVars, dictVars, rankVars>>

\* one iteration of the loop at lines 25-31
InstallPackage ==
    /\ launcher_pc = "install"
    /\ LET k == Len(attempted) + 1
       IN  /\ attempted' = Append(attempted, packages[k])
           /\ launcher_pc' = AfterInstall(pip_results[k], k)
    /\ UNCHANGED <<dashboard_exists, missing_files, pip_results, warned, launched>>
    /\ UNCHANGED <<segVars, mainVars, unifyVars, categoryVars, marginVars, timeVars,
                   loadVars, dictVars, rankVars>>

\* lines 86-87: input() returns and launch_dashboard starts streamlit
PressEnter ==
    /\ launcher_pc = "prompt"
    /\ launched' = TRUE
    /\ launcher_pc' = "launched"
    /\ UNCHANGED <<dashboard_exists, missing_files, pip_results, attempted, warned>>
    /\ UNCHANGED <<segVars, mainVars, unifyVars, categoryVars, marginVars, timeVars,
                   loadVars, dictVars, rankVars>>

\* line 86: input() raises (end of input, Ctrl+C) and main ends
InputInterrupted ==
    /\ launcher_pc = "prompt"
    /\ launcher_pc' = "raised"
    /\ UNCHANGED <<dashboard_exists, missing_files, pip_results, attempted, warned,
                   launched>>
    /\ UNCHANGED <<segVars, mainVars, unifyVars, categoryVars, marginVars, timeVars,
                   loadVars, dictVars, rankVars>>

NextLaunch ==
    \/ CheckDirectory
    \/ InstallPackage
    \/ PressEnter
    \/ InputInterrupted

SpecLaunch == InitLaunch /\ [][NextLaunch]_vars

PackageOrder ==
    <<"streamlit==1.28.0", "pandas==2.1.0", "numpy==1.24.3", "plotly==5.15.0",
      "seaborn==0.12.2", "matplotlib==3.7.2">>

\* C15: the packages are installed in list order and the dashboard is started
\* only after every one of them was installed successfully; after the first
\* failed installation no later package is attempted and the dashboard is
\* never launched; without ecommerce_dashboard.py nothing is installed or
\* launched; missing CSV files give a warning and stop neither installation
\* nor launch.
C15_LaunchAfterInstall ==
    /\ IsPrefix(attempted, PackageOrder)
    /\ \A k \in 1..Len(attempted) - 1 : pip_results[k] = "ok"
    /\ launched =>
          /\ attempted = PackageOrder
          /\ \A k \in DOMAIN PackageOrder : pip_results[k] = "ok"
          /\ dashboard_exists
    /\ (attempted # <<>> /\ pip_results[Len(attempted)] # "ok") =>
          /\ ~launched
          /\ launcher_pc \in {"installation_failed", "raised"}
    /\ ~dashboard_exists => (attempted = <<>> /\ ~launched /\ ~warned)
    /\ (dashboard_exists /\ launcher_pc # "start") => (warned <=> missing_files # {})
    /\ launcher_pc = "returned" => ~dashboard_exists
    /\ launcher_pc = "installation_failed" =>
          pip_results[Len(attempted)] = "CalledProcessError"
    /\ (launcher_pc = "raised" /\ Len(attempted) < Len(PackageOrder)) =>
          pip_results[Len(attempted)] = "OSError"

\* the dashboard was launched after all six installations although CSV files
\* are missing and the warning was printed
C15_Witness ==
    /\ launched
    /\ attempted = PackageOrder
    /\ missing_files # {}
    /\ warned

====
